---- MODULE Spec2Model ----
(***************************************************************************)
(* Model of the walker bandit simulation of qtsit/algorithms:              *)
(*   MAB_WALKS.py  : Walk, ClassicalWalk, QuantumWalk                      *)
(*   randomwalk.py : classical_walk                                        *)
(*                                                                         *)
(* Python lists are functions over 0..len-1, indexed as Python indexes     *)
(* them (a negative index counts from the end, an index outside            *)
(* [-len, len) raises IndexError).                                         *)
(* Floats are modelled in two ways:                                        *)
(*   - emp_truth[p], a quotient of two small integers, is the exact        *)
(*     fraction <<num, den>> in lowest terms;                              *)
(*   - probabilities, angles and decay values are fixed-point integers     *)
(*     with SCALE units for 1.0; np.exp is evaluated in that fixed point.  *)
(* Rounding of IEEE doubles is outside the model.                          *)
(***************************************************************************)
EXTENDS Integers, Sequences, FiniteSets, TLC

VARIABLES
    kind,           \* the class of the walker: "ClassicalWalk" | "QuantumWalk" | "classical_walk"
    size, j, steps, initial_theta, ground_truth,
    initial_pos,    \* the initial_pos argument of a QuantumWalk (history; NoPos otherwise)
    n_qubits,       \* QuantumWalk.n
    q_walk,         \* QuantumWalk.q_walk: the instructions of the circuit
    pos_index, emp_truth, happiness, hits, walking_space, init_state,
    pos,            \* classical_walk.pos: index of the walking_space entry it aliases, NoPos for []
    toss_val, result,
    x,              \* the pull of the current trial
    i,              \* the loop variable of explore(): completed trials
    s,              \* the loop variable of walk()/walkk(): elementary moves done
    pc, err,
    ret,            \* the value main() returned
    wins,           \* the number of pulls of this run that returned 1
    gate,           \* SpecGate: a gate under construction/application on a basis state
    two             \* SpecTwo: two walkers and the lists they refer to

vars == <<kind, size, j, steps, initial_theta, ground_truth, pos_index, emp_truth,
          happiness, hits, walking_space, init_state, pos, toss_val, result, x, i, s,
          pc, err, gate, initial_pos, n_qubits, q_walk, ret, wins, two>>

cfgVars == <<kind, size, j, steps, initial_theta, ground_truth, initial_pos, n_qubits>>

-----------------------------------------------------------------------------
(* Bounds of the model *)
MaxSize == 3
MaxJ == 3
MaxSteps == 2

(* Fixed point: SCALE units are 1.0 *)
SCALE == 10 ^ 4
HALF == SCALE \div 2

Mul(u, v) == (u * v) \div SCALE

(* Program constants *)
a_Walk == 5
a_classical == 9
b == 6
ZFILL == 5

NoPos == 0 - 1

-----------------------------------------------------------------------------
(* Python list indexing *)
InRange(p, len) == (0 - len) <= p /\ p < len
PyIdx(p, len) == IF p < 0 THEN p + len ELSE p
Len0(f) == Cardinality(DOMAIN f)
At(f, p) == f[PyIdx(p, Len0(f))]
Put(f, p, v) == [f EXCEPT ![PyIdx(p, Len0(f))] = v]

RECURSIVE SumTo(_, _)
SumTo(f, n) == IF n = 0 THEN 0 ELSE f[n - 1] + SumTo(f, n - 1)
sum(f) == SumTo(f, Len0(f))

RECURSIVE GCD(_, _)
GCD(m, n) == IF n = 0 THEN m ELSE GCD(n, m % n)

(* happiness / hits: true division of two ints, the fraction in lowest terms *)
TrueDiv(h, n) == LET g == GCD(h, n) IN <<h \div g, n \div g>>

(* comparison of two fractions with positive denominators *)
FracLess(e, f) == e[1] * f[2] < f[1] * e[2]
FracEq(e, f) == e[1] * f[2] = f[1] * e[2]

-----------------------------------------------------------------------------
(* np.exp(-y) for a fixed-point y >= 0: Taylor series on the fractional    *)
(* part, exp(-1) to the power of the whole part.                           *)
TaylorTerms == 12

RECURSIVE ExpSeries(_, _, _)
ExpSeries(f, k, term) ==
    IF k > TaylorTerms \/ term = 0 THEN 0
    ELSE LET nxt == (term * f) \div (SCALE * k)
         IN  (IF k % 2 = 1 THEN 0 - nxt ELSE nxt) + ExpSeries(f, k + 1, nxt)

ExpFrac(f) == SCALE + ExpSeries(f, 1, SCALE)

RECURSIVE np_exp_neg(_)
np_exp_neg(y) ==
    IF y < SCALE THEN ExpFrac(y)
    ELSE Mul(ExpFrac(SCALE), np_exp_neg(y - SCALE))

(* np.power(emp, b), times a, in fixed point *)
np_power_times(a, e) == (a * (e[1] ^ b) * SCALE) \div (e[2] ^ b)

(* the success rate taken by floor division *)
DecayFactor_floor(a, e) == np_exp_neg(np_power_times(a, <<e[1] \div e[2], 1>>))

(* exp(-a * emp^b) *)
DecayFactor(a, e) == np_exp_neg(np_power_times(a, e))

-----------------------------------------------------------------------------
(* Inputs *)
Kinds == {"ClassicalWalk", "classical_walk"}
NoReturn == "none"
IsWalk == kind # "classical_walk"

(* ground-truth probabilities a caller may pass *)
GTValid == {0, HALF, SCALE}
GTInvalid == {SCALE + HALF}
Thetas == {SCALE, SCALE + HALF}

Zeros(n) == [p \in 0 .. n - 1 |-> 0]

(* bin(p)[2:] for p >= 0, most significant digit first *)
RECURSIVE bin(_)
bin(p) == IF p < 2 THEN <<p>> ELSE Append(bin(p \div 2), p % 2)

RECURSIVE zfill(_, _)
zfill(str, w) == IF Len(str) >= w THEN str ELSE zfill(<<0>> \o str, w)

InitState(p) == zfill(bin(p), ZFILL)

(* the bias of a position whose empirical truth is e *)
WalkBias(e) == Mul(initial_theta, DecayFactor(a_Walk, e))

(* the stay probability computed as 1 - pBack *)
classicalBias_stay(e) ==
    LET back == Mul(HALF, DecayFactor(a_classical, e))
        stay == SCALE - back
    IN  <<back, stay, back>>

classicalBias(e) ==
    LET back == Mul(HALF, DecayFactor(a_classical, e))
        stay == SCALE - 2 * back
    IN  <<back, stay, back>>

(* QuantumWalk.__init__: n = int(np.ceil(np.log2(size))) *)
RECURSIVE CeilLog2From(_, _)
CeilLog2From(sz, n) == IF 2 ^ n >= sz THEN n ELSE CeilLog2From(sz, n + 1)
CeilLog2(sz) == CeilLog2From(sz, 0)

-----------------------------------------------------------------------------
(* The state after __init__.  gt is the ground truth the caller passes.    *)
Construct(kd, sz, ip, theta, st, jj, gt) ==
    /\ kind = kd
    /\ size = sz
    /\ j = jj
    /\ steps = st
    /\ initial_theta = theta
    /\ initial_pos = IF kd = "QuantumWalk" THEN ip ELSE NoPos
    /\ pos_index = ip
    /\ ground_truth = gt
    /\ n_qubits = IF kd = "QuantumWalk" THEN CeilLog2(sz) ELSE 0
    /\ q_walk = <<>>
    /\ ret = NoReturn
    /\ wins = 0
    /\ emp_truth = [p \in 0 .. sz - 1 |-> <<0, 1>>]
    /\ happiness = Zeros(sz)
    /\ hits = Zeros(sz)
    /\ walking_space = [p \in 0 .. sz - 1 |->
                          IF kd # "classical_walk" THEN theta ELSE <<HALF, 0, HALF>>]
    /\ init_state = IF kd # "classical_walk" THEN InitState(ip) ELSE <<>>
    /\ pos = NoPos
    /\ toss_val = SCALE \div 10
    /\ result = ""
    /\ x = 0
    /\ i = 0
    /\ s = 0
    /\ pc = IF jj = 0 THEN "done" ELSE "walk"
    /\ err = ""

GateIdle == [name |-> "none"]
TwoIdle == [name |-> "none"]

(* runs configured as the data model requires *)
Init ==
    /\ \E kd \in Kinds, sz \in 1 .. MaxSize, jj \in 0 .. MaxJ, st \in 0 .. MaxSteps :
         \E ip \in 0 .. sz - 1, gt \in [0 .. sz - 1 -> GTValid],
            theta \in (IF kd = "ClassicalWalk" THEN Thetas ELSE {0}) :
              Construct(kd, sz, ip, theta, st, jj, gt)
    /\ gate = GateIdle
    /\ two = TwoIdle

(* runs configured with any ground truth: wrong length, entries beyond 1 *)
InitAny ==
    /\ \E kd \in Kinds, sz \in 1 .. MaxSize, jj \in 0 .. MaxJ, st \in 0 .. MaxSteps :
         \E ip \in 0 .. sz - 1, len \in sz - 1 .. sz + 1,
            theta \in (IF kd = "ClassicalWalk" THEN {SCALE} ELSE {0}) :
              \E gt \in [0 .. len - 1 -> {HALF} \cup GTInvalid] :
                 Construct(kd, sz, ip, theta, st, jj, gt)
    /\ gate = GateIdle
    /\ two = TwoIdle

-----------------------------------------------------------------------------
Raise(e) ==
    /\ pc' = "error"
    /\ err' = e

(* a move that stops at the two ends instead of wrapping *)
ClassicalStep_clamp(p, right, n) ==
    IF right THEN (IF p = n - 1 THEN p ELSE p + 1) ELSE (IF p = 0 THEN p ELSE p - 1)

(* ClassicalWalk.walk: one iteration of the loop *)
ClassicalStep(p, right, n) == IF right THEN (p + 1) % n ELSE (p - 1) % n

ClassicalWalk_walk ==
    /\ pc = "walk" /\ kind = "ClassicalWalk" /\ s < steps
    /\ \E right \in BOOLEAN : pos_index' = ClassicalStep(pos_index, right, size)
    /\ s' = s + 1
    /\ UNCHANGED <<cfgVars, emp_truth, happiness, hits, walking_space, init_state,
                   pos, toss_val, result, x, i, pc, err, gate, q_walk, ret, wins, two>>

(* the thresholds taken half-open: [0,pBack), [pBack,pBack+pStay), [pBack+pStay,1] *)
coin_toss_halfopen(u, t, prev) ==
    LET r1 == IF 0 <= u /\ u < t[1] THEN "BACK" ELSE prev
        r2 == IF t[1] <= u /\ u < t[1] + t[2] THEN "STAY" ELSE r1
    IN  IF t[1] + t[2] <= u /\ u <= SCALE THEN "FORWARD" ELSE r2

(* classical_walk.coin_toss: the result for the draw u on the triple t *)
coin_toss(u, t, prev) ==
    LET r1 == IF 0 <= u /\ u <= t[1] THEN "BACK" ELSE prev
        r2 == IF t[1] < u /\ u <= t[1] + t[2] THEN "STAY" ELSE r1
    IN  IF t[1] + t[2] < u /\ u <= SCALE THEN "FORWARD" ELSE r2

(* the draws of np.random.rand() that matter for the triple t *)
Tosses(t) ==
    {u \in {0, t[1], t[1] + 1, t[1] + t[2], t[1] + t[2] + 1, SCALE - 1} :
        0 <= u /\ u < SCALE}

(* a step that stops at the two ends instead of wrapping *)
one_walk_nowrap(p, r, n) ==
    IF r = "BACK" THEN (IF p = 0 THEN p ELSE p - 1)
    ELSE IF r = "FORWARD" THEN (IF p = n - 1 THEN p ELSE p + 1)
    ELSE p

(* classical_walk.one_walk *)
one_walk(p, r, n) ==
    IF p = n - 1
    THEN LET q == IF r = "BACK" THEN p - 1 ELSE p
         IN  IF r = "FORWARD" THEN 0 ELSE q
    ELSE IF p = 0
    THEN LET q == IF r = "BACK" THEN n - 1 ELSE p
         IN  IF r = "FORWARD" THEN q + 1 ELSE q
    ELSE LET q == IF r = "BACK" THEN p - 1 ELSE p
         IN  IF r = "FORWARD" THEN q + 1 ELSE q

(* classical_walk.walkk: one iteration (goto_pos, coin_toss, one_walk) *)
classical_walk_walkk ==
    /\ pc = "walk" /\ ~IsWalk /\ s < steps
    /\ IF ~InRange(pos_index, size)
       THEN /\ Raise("IndexError")
            /\ UNCHANGED <<pos, toss_val, result, pos_index, s>>
       ELSE /\ pos' = PyIdx(pos_index, size)
            /\ \E u \in Tosses(At(walking_space, pos_index)) :
                 /\ toss_val' = u
                 /\ result' = coin_toss(u, At(walking_space, pos_index), result)
            /\ pos_index' = one_walk(pos_index, result', size)
            /\ s' = s + 1
            /\ UNCHANGED <<pc, err>>
    /\ UNCHANGED <<cfgVars, emp_truth, happiness, hits, walking_space, init_state,
                   x, i, gate, q_walk, ret, wins, two>>

(* np.random.binomial(n=1, p): the values it can return *)
binomial(p) == IF p = 0 THEN {0} ELSE IF p = SCALE THEN {1} ELSE {0, 1}

(* slotMachine, called when the walk of the trial has returned *)
slotMachine ==
    /\ \/ pc = "walk" /\ kind # "QuantumWalk" /\ s = steps
       \/ pc = "pull"
    /\ IF ~InRange(pos_index, Len0(ground_truth))
       THEN Raise("IndexError") /\ UNCHANGED <<x, wins>>
       ELSE IF At(ground_truth, pos_index) < 0 \/ At(ground_truth, pos_index) > SCALE
       THEN Raise("ValueError") /\ UNCHANGED <<x, wins>>
       ELSE /\ x' \in binomial(At(ground_truth, pos_index))
            /\ wins' = wins + x'
            /\ pc' = "record"
            /\ UNCHANGED err
    /\ UNCHANGED <<cfgVars, pos_index, emp_truth, happiness, hits, walking_space,
                   init_state, pos, toss_val, result, i, s, gate, q_walk, ret, two>>

(* hits counted only for a pull that failed *)
RecordHitsOnMiss(h, p, xx) == IF xx = 1 THEN h ELSE Put(h, p, At(h, p) + 1)

(* the division done before hits is incremented *)
DivisorBefore(h_before, h_after, p) == At(h_before, p)

(* a pull counted at every position *)
RecordHits_all(h, p, xx) == [q \in DOMAIN h |-> h[q] + 1]

(* explore: "if x: happiness[pos_index] += 1" and "hits[pos_index] += 1" *)
RecordHappiness(hap, p, xx) == IF xx = 1 THEN Put(hap, p, At(hap, p) + 1) ELSE hap
RecordHits(h, p, xx) == Put(h, p, At(h, p) + 1)

(* explore: the divisor of "happiness[pos_index] / hits[pos_index]" *)
Divisor(h_before, h_after, p) == At(h_after, p)

(* explore: the counter update of a trial *)
Record ==
    /\ pc = "record"
    /\ IF ~InRange(pos_index, size)
       THEN /\ Raise("IndexError")
            /\ UNCHANGED <<happiness, hits, emp_truth>>
       ELSE LET hap == RecordHappiness(happiness, pos_index, x)
                hts == RecordHits(hits, pos_index, x)
                d   == Divisor(hits, hts, pos_index)
            IN  /\ happiness' = hap
                /\ hits' = hts
                /\ IF d = 0
                   THEN Raise("ZeroDivisionError") /\ UNCHANGED emp_truth
                   ELSE /\ emp_truth' = Put(emp_truth, pos_index,
                                            TrueDiv(At(hap, pos_index), d))
                        /\ pc' = "update"
                        /\ UNCHANGED err
    /\ UNCHANGED <<cfgVars, pos_index, walking_space, init_state, pos, toss_val,
                   result, x, i, s, gate, q_walk, ret, wins, two>>

(* the bias loop stopping one position short *)
BiasRangeShort(n) == 0 .. n - 2

(* explore: "for j in range(self.size)": the positions whose bias is recomputed *)
BiasRange(n) == 0 .. n - 1

Bias(e) == IF IsWalk THEN WalkBias(e) ELSE classicalBias(e)

(* np.array(e).argmax(): the first index of the maximum *)
RECURSIVE ArgmaxFrom(_, _, _)
ArgmaxFrom(e, p, best) ==
    IF p >= Len0(e) THEN best
    ELSE ArgmaxFrom(e, p + 1, IF FracLess(e[best], e[p]) THEN p ELSE best)

(* the last index of the maximum *)
RECURSIVE ArgmaxLastFrom(_, _, _)
ArgmaxLastFrom(e, p, best) ==
    IF p >= Len0(e) THEN best
    ELSE ArgmaxLastFrom(e, p + 1, IF FracLess(e[p], e[best]) THEN best ELSE p)

argmax_last(e) == ArgmaxLastFrom(e, 1, 0)

argmax(e) == ArgmaxFrom(e, 1, 0)

(* explore: the bias recompute and the greedy re-anchor that end a trial *)
Update ==
    /\ pc = "update"
    /\ walking_space' = [p \in DOMAIN walking_space |->
                           IF p \in BiasRange(size) THEN Bias(emp_truth[p])
                           ELSE walking_space[p]]
    /\ pos_index' = argmax(emp_truth)
    /\ init_state' = IF IsWalk THEN InitState(pos_index') ELSE init_state
    /\ i' = i + 1
    /\ s' = 0
    /\ pc' = IF i + 1 < j THEN "walk" ELSE "done"
    /\ UNCHANGED <<cfgVars, emp_truth, happiness, hits, pos, toss_val, result, x,
                   err, gate, q_walk, ret, wins, two>>

(* sum(happiness), with a total of the pulls in its place *)
main_value_pulls == sum(hits)

(* main: "return sum(self.happiness)" *)
main_value == sum(happiness)

(* main: explore() has returned *)
main ==
    /\ pc = "done"
    /\ ret' = main_value
    /\ pc' = "returned"
    /\ UNCHANGED <<cfgVars, pos_index, emp_truth, happiness, hits, walking_space,
                   init_state, pos, toss_val, result, x, i, s, err, gate, q_walk,
                   wins, two>>

Next ==
    \/ ClassicalWalk_walk
    \/ classical_walk_walkk
    \/ slotMachine
    \/ Record
    \/ Update
    \/ main

Spec == Init /\ [][Next]_vars

SpecAny == InitAny /\ [][Next]_vars

-----------------------------------------------------------------------------
(* QuantumWalk: the shift-operator gates.  Every gate they are built from  *)
(* (x, cx, ccx, mcx) permutes basis states, so a gate is modelled by its   *)
(* action on a basis state: q maps each gate-local qubit to its bit.       *)
MaxGateSize == 8

(* one circuit instruction: flip tgt when every qubit of ctrl is 1 *)
mcx(ctrl, tgt) == [ctrl |-> ctrl, tgt |-> tgt]
xgate(tgt) == [ctrl |-> {}, tgt |-> tgt]

(* qc.x([lo .. hi]) *)
RECURSIVE xs(_, _)
xs(lo, hi) == IF lo > hi THEN <<>> ELSE <<xgate(lo)>> \o xs(lo + 1, hi)

(* incremment_gate: "for i in range(2, self.n + 1): qc.mcx([0..i-1], i)" *)
RECURSIVE IncLoop(_, _)
IncLoop(k, n) == IF k > n THEN <<>> ELSE <<mcx(0 .. k - 1, k)>> \o IncLoop(k + 1, n)

(* QuantumWalk.incremment_gate: the circuit on n + 1 qubits *)
incremment_gate(n) ==
    [width |-> n + 1,
     ops   |-> <<mcx({0}, 1), mcx({0, 1}, 2)>> \o IncLoop(2, n)]

(* decrement_two_coins: "for i in range(self.n, 0, -1)" *)
RECURSIVE DecLoop(_)
DecLoop(k) ==
    IF k < 1 THEN <<>>
    ELSE (IF k > 1 THEN xs(2, k) \o <<mcx(0 .. k, k + 1)>> \o xs(2, k) ELSE <<>>)
         \o DecLoop(k - 1)

(* a decrement whose borrow test lost its X sandwich *)
RECURSIVE DecLoopNoFlip(_)
DecLoopNoFlip(k) ==
    IF k < 1 THEN <<>>
    ELSE (IF k > 1 THEN <<mcx(0 .. k, k + 1)>> ELSE <<>>) \o DecLoopNoFlip(k - 1)

decrement_two_coins_noflip(n) ==
    [width |-> n + 2,
     ops   |-> DecLoopNoFlip(n) \o <<mcx({0, 1}, 2)>>]

(* QuantumWalk.decrement_two_coins: the circuit on n + 2 qubits *)
decrement_two_coins(n) ==
    [width |-> n + 2,
     ops   |-> DecLoop(n) \o <<mcx({0, 1}, 2)>>]

(* QuantumCircuit raises CircuitError for a qubit index beyond its width *)
Buildable(qc) ==
    \A k \in 1 .. Len(qc.ops) :
        (qc.ops[k].ctrl \cup {qc.ops[k].tgt}) \subseteq 0 .. qc.width - 1

(* one instruction applied to a basis state *)
ApplyOp(op, q) ==
    IF \A c \in op.ctrl : q[c] = 1 THEN [q EXCEPT ![op.tgt] = 1 - q[op.tgt]] ELSE q

(* the integer held by the nbits qubits from qubit lo on, least significant first *)
RECURSIVE Value(_, _, _)
Value(q, lo, nbits) ==
    IF nbits = 0 THEN 0 ELSE q[lo] + 2 * Value(q, lo + 1, nbits - 1)

Bit(v, k) == (v \div (2 ^ k)) % 2

(* the basis state with the control qubits c (a sequence) and the register at v *)
Basis(c, v, n) ==
    [qb \in 0 .. Len(c) + n - 1 |-> IF qb < Len(c) THEN c[qb + 1] ELSE Bit(v, qb - Len(c))]

(* the explore variables while a gate is studied: a finished empty run *)
NoRun == Construct("ClassicalWalk", 1, 0, SCALE, 0, 0, Zeros(1))

InitGate ==
    /\ NoRun
    /\ two = TwoIdle
    /\ \E name \in {"Inc", "dec"}, sz \in 1 .. MaxGateSize, c0 \in 0 .. 1, c1 \in 0 .. 1 :
         LET n  == CeilLog2(sz)
             qc == IF name = "Inc" THEN incremment_gate(n) ELSE decrement_two_coins(n)
             c  == IF name = "Inc" THEN <<c0>> ELSE <<c0, c1>>
         IN  \E v \in 0 .. 2 ^ n - 1 :
               gate = [name |-> name, size |-> sz, n |-> n, v |-> v, c |-> c,
                       status |-> IF Buildable(qc) THEN "apply" ELSE "CircuitError",
                       ops |-> qc.ops, k |-> 1, q |-> Basis(c, v, n)]

(* the next instruction of the gate acts on the state *)
GateStep ==
    /\ gate.name # "none" /\ gate.status = "apply"
    /\ gate' = IF gate.k > Len(gate.ops)
               THEN [gate EXCEPT !.status = "done"]
               ELSE [gate EXCEPT !.q = ApplyOp(gate.ops[gate.k], gate.q),
                                 !.k = gate.k + 1]
    /\ UNCHANGED <<cfgVars, pos_index, emp_truth, happiness, hits, walking_space,
                   init_state, pos, toss_val, result, x, i, s, pc, err, q_walk, ret,
                   wins, two>>

NextGate == GateStep

SpecGate == InitGate /\ [][NextGate]_vars

(* the register of a gate that has been applied, and its inputs *)
GateDone(name) == gate.name = name /\ gate.status = "done"
GateValue == Value(gate.q, Len(gate.c), gate.n)

-----------------------------------------------------------------------------
(* C1: for n >= 1 and 0 <= v < size-1, the increment gate applied to the   *)
(* register at v yields v+1 when its control qubit is 1, and leaves v when *)
(* the control qubit is 0.                                                 *)
C1_IncrementYieldsSuccessor ==
    (GateDone("Inc") /\ gate.n >= 1 /\ gate.v < gate.size - 1) =>
        /\ gate.c[1] = 1 => GateValue = gate.v + 1
        /\ gate.c[1] = 0 => GateValue = gate.v

(* C2: for n >= 1 and 1 <= v <= size-1, the decrement gate applied to the  *)
(* register at v yields v-1 when both control qubits are 1, and leaves the *)
(* register at v when either control qubit is 0.                           *)
C2_DecrementYieldsPredecessor ==
    /\ (gate.name = "dec" /\ gate.n >= 1) => gate.status # "CircuitError"
    /\ (GateDone("dec") /\ gate.n >= 1 /\ 1 <= gate.v /\ gate.v <= gate.size - 1) =>
          /\ (gate.c[1] = 1 /\ gate.c[2] = 1) => GateValue = gate.v - 1
          /\ (gate.c[1] = 0 \/ gate.c[2] = 0) => GateValue = gate.v

(* a decrement that borrowed through two bits: 4 -> 3 *)
C2_Witness ==
    GateDone("dec") /\ gate.c = <<1, 1>> /\ gate.v = 4 /\ GateValue = 3

-----------------------------------------------------------------------------
(* Claims about explore() *)
Positions == 0 .. size - 1

(* a trial has completed and the next has not begun *)
TrialEnd == pc \in {"walk", "done"} /\ s = 0 /\ i >= 1

(* C3: in every state of explore(), 0 <= happiness[p] <= hits[p] for      *)
(* every position p.                                                       *)
C3_HappinessWithinHits ==
    \A p \in Positions : 0 <= happiness[p] /\ happiness[p] <= hits[p]

C3_Witness ==
    \E p \in Positions : happiness[p] >= 1 /\ happiness[p] < hits[p]

(* C4: after every completed trial emp_truth[p] is happiness[p] / hits[p]  *)
(* where hits[p] > 0 and 0 elsewhere, and no trial divides by zero.        *)
C4_EmpTruthIsRatio ==
    /\ err # "ZeroDivisionError"
    /\ TrialEnd =>
          \A p \in Positions :
              IF hits[p] > 0
              THEN emp_truth[p][1] * hits[p] = happiness[p] * emp_truth[p][2]
              ELSE emp_truth[p][1] = 0

C4_Witness ==
    /\ TrialEnd
    /\ \E p, q \in Positions :
          /\ hits[p] = 2 /\ happiness[p] = 1 /\ emp_truth[p] = <<1, 2>>
          /\ hits[q] = 0 /\ emp_truth[q] = <<0, 1>>

(* C5: at the end of every trial pos_index is the smallest index that      *)
(* maximizes emp_truth; while no pull has succeeded it is 0.               *)
C5_GreedyReanchor ==
    TrialEnd =>
        /\ pos_index \in Positions
        /\ \A q \in Positions : ~FracLess(emp_truth[pos_index], emp_truth[q])
        /\ \A q \in Positions : q < pos_index => FracLess(emp_truth[q], emp_truth[pos_index])
        /\ (\A q \in Positions : happiness[q] = 0) => pos_index = 0

(* a tie between positions 1 and 2, above position 0: the first of them wins *)
C5_Witness ==
    /\ TrialEnd /\ size = 3 /\ pos_index = 1
    /\ FracEq(emp_truth[1], emp_truth[2])
    /\ FracLess(emp_truth[0], emp_truth[1])

(* C6: both classical walks keep pos_index within [0, size) after every    *)
(* elementary move.                                                        *)
C6_PositionInRange == pos_index \in Positions

(* C7: explore() runs exactly j trials without an early exit, and after t  *)
(* completed trials sum(hits) = t.                                         *)
C7_ExactlyJTrials ==
    /\ pc # "error"
    /\ (pc \in {"walk", "done"}) => sum(hits) = i
    /\ pc = "done" => (i = j /\ sum(hits) = j)

(* C8: a run whose ground truth has an entry outside [0,1] or a length     *)
(* other than size takes no walk step, pulls nothing and records nothing.  *)
InvalidGroundTruth ==
    \/ Len0(ground_truth) # size
    \/ \E p \in DOMAIN ground_truth : ground_truth[p] < 0 \/ ground_truth[p] > SCALE

C8_FailFast ==
    InvalidGroundTruth =>
        /\ s = 0 /\ i = 0
        /\ pc \notin {"record", "update"}
        /\ hits = Zeros(size) /\ happiness = Zeros(size)
        /\ \A p \in Positions : emp_truth[p] = <<0, 1>>

(* C9: after every completed trial walking_space[p] is the decay value of  *)
(* emp_truth[p] for every p; in every state a position never pulled holds  *)
(* the maximum bias (initial_theta, or the triple (0.5, 0, 0.5)).          *)
MaxBias == IF IsWalk THEN initial_theta ELSE <<HALF, 0, HALF>>

C9_BiasFollowsEmpTruth ==
    /\ TrialEnd => \A p \in Positions : walking_space[p] = Bias(emp_truth[p])
    /\ \A p \in Positions : hits[p] = 0 => walking_space[p] = MaxBias

C9_Witness ==
    /\ TrialEnd
    /\ \E p, q \in Positions :
          /\ hits[p] = 0
          /\ emp_truth[q][1] > 0 /\ walking_space[q] # MaxBias
          /\ walking_space[q] = Bias(emp_truth[q])

(* C10: in every state of a classical_walk run every bias triple has       *)
(* pForward = pBack, pStay = 1 - 2 pBack, 0 <= pBack <= 0.5, pStay >= 0    *)
(* and sums to 1.                                                          *)
C10_TripleIsDistribution ==
    ~IsWalk =>
        \A p \in Positions :
            LET t == walking_space[p]
            IN  /\ t[3] = t[1]
                /\ t[2] = SCALE - 2 * t[1]
                /\ 0 <= t[1] /\ 2 * t[1] <= SCALE
                /\ t[2] >= 0
                /\ t[1] + t[2] + t[3] = SCALE

C10_Witness ==
    /\ ~IsWalk
    /\ \E p \in Positions : walking_space[p][1] < HALF /\ walking_space[p][2] > 0

-----------------------------------------------------------------------------
(* Claims about the classical three-outcome walk *)

(* a move of walkk has been made in this trial: toss_val and result are    *)
(* those of the last move, drawn against the triple that pos aliases       *)
Tossed == ~IsWalk /\ s >= 1 /\ pos # NoPos
pBack == walking_space[pos][1]
pStay == walking_space[pos][2]

(* C11 as claimed: BACK iff 0 <= u < pBack, STAY iff pBack <= u <          *)
(* pBack + pStay, FORWARD iff pBack + pStay <= u <= 1.                     *)
C11_HalfOpenThresholds ==
    Tossed =>
        /\ result = "BACK" <=> (0 <= toss_val /\ toss_val < pBack)
        /\ result = "STAY" <=> (pBack <= toss_val /\ toss_val < pBack + pStay)
        /\ result = "FORWARD" <=> (pBack + pStay <= toss_val /\ toss_val <= SCALE)

(* C11 as amended: every draw has exactly one outcome, with the upper      *)
(* bounds inclusive: BACK iff 0 <= u <= pBack, STAY iff pBack < u <=       *)
(* pBack + pStay, FORWARD iff pBack + pStay < u <= 1.                      *)
C11_InclusiveThresholds ==
    Tossed =>
        /\ result \in {"BACK", "STAY", "FORWARD"}
        /\ result = "BACK" <=> (0 <= toss_val /\ toss_val <= pBack)
        /\ result = "STAY" <=> (pBack < toss_val /\ toss_val <= pBack + pStay)
        /\ result = "FORWARD" <=> (pBack + pStay < toss_val /\ toss_val <= SCALE)

(* a draw equal to pBack, on a triple with room to stay, went BACK *)
C11_Witness ==
    Tossed /\ pStay > 0 /\ toss_val = pBack /\ result = "BACK"

-----------------------------------------------------------------------------
(* C12: main() returns sum(happiness), which is the number of trials of    *)
(* the run whose pull succeeded, so 0 <= main() <= j.                      *)
C12_MainReturnsSuccesses ==
    pc = "returned" =>
        /\ ret = sum(happiness)
        /\ ret = wins
        /\ 0 <= ret /\ ret <= j

(* a run that returned with some pulls won and some lost *)
C12_Witness == pc = "returned" /\ 1 <= ret /\ ret < j /\ i = j

-----------------------------------------------------------------------------
(* the decay scalar of a bias: theta for a Walk, pBack for classical_walk *)
DecayScalar(w) == IF IsWalk THEN w ELSE w[1]

-----------------------------------------------------------------------------
(* Two walkers of one class, built from the same ground-truth list.        *)
(* two.heap maps the address of every list to its contents, two.w[k] holds *)
(* the attributes of walker k: an address for each list attribute, the     *)
(* value for pos_index, and i, its completed trials.  The configuration    *)
(* (kind, size, steps, j, initial_theta) is that of the run variables.     *)
(* The scalar attributes that walkk rebinds (pos, toss_val, result) are    *)
(* local to a trial here.                                                  *)
TwoMaxSize == 2
TwoMaxJ == 2
TwoSteps == {0, 1}
Walkers == {1, 2}

(* the list attributes, in the order __init__ creates them *)
F_emp_truth == 1
F_happiness == 2
F_hits == 3
F_walking_space == 4
Fields == {F_emp_truth, F_happiness, F_hits, F_walking_space}

(* the address of the caller's gt list, stored by "self.ground_truth = gt" *)
GtAddr == 0

(* one hits list behind every walker, as a class attribute would be *)
NewList_shared(k, f) == IF f = F_hits THEN F_hits ELSE 4 * (k - 1) + f

(* __init__: the list built for attribute f of walker k is a new object *)
NewList(k, f) == 4 * (k - 1) + f

(* __init__: the contents of the new list of attribute f *)
InitList(f, sz, theta) ==
    IF f = F_emp_truth THEN [p \in 0 .. sz - 1 |-> <<0, 1>>]
    ELSE IF f = F_walking_space
    THEN [p \in 0 .. sz - 1 |-> IF IsWalk THEN theta ELSE <<HALF, 0, HALF>>]
    ELSE Zeros(sz)

InitHeap(sz, theta, gt) ==
    [ad \in {GtAddr} \cup {NewList(k, f) : k \in Walkers, f \in Fields} |->
        IF ad = GtAddr THEN gt
        ELSE InitList((CHOOSE kf \in Walkers \X Fields : NewList(kf[1], kf[2]) = ad)[2],
                      sz, theta)]

InitWalker(k, ip) ==
    [pos_index |-> ip, i |-> 0, ground_truth |-> GtAddr,
     emp_truth |-> NewList(k, F_emp_truth), happiness |-> NewList(k, F_happiness),
     hits |-> NewList(k, F_hits), walking_space |-> NewList(k, F_walking_space)]

InitTwo ==
    /\ \E kd \in Kinds, sz \in 2 .. TwoMaxSize, st \in TwoSteps :
         \E theta \in (IF kd = "ClassicalWalk" THEN {SCALE} ELSE {0}) :
            /\ Construct(kd, sz, 0, theta, st, TwoMaxJ, [p \in 0 .. sz - 1 |-> HALF])
            /\ \E ip1, ip2 \in 0 .. sz - 1 :
                 two = [name |-> "two",
                        heap |-> InitHeap(sz, theta, [p \in 0 .. sz - 1 |-> HALF]),
                        w |-> [k \in Walkers |-> InitWalker(k, IF k = 1 THEN ip1 ELSE ip2)]]
    /\ gate = GateIdle

(* the positions walk()/walkk() can return from p after st moves *)
RECURSIVE WalkEnds(_, _, _)
WalkEnds(p, st, ws) ==
    IF st = 0 THEN {p}
    ELSE IF IsWalk
    THEN UNION {WalkEnds(ClassicalStep(p, right, size), st - 1, ws) : right \in BOOLEAN}
    ELSE UNION {WalkEnds(one_walk(p, coin_toss(u, At(ws, p), ""), size), st - 1, ws) :
                  u \in Tosses(At(ws, p))}

(* explore: one trial of walker k, every list reached through its address *)
TwoTrial(k) ==
    /\ two.name = "two"
    /\ two.w[k].i < j
    /\ LET w == two.w[k]
           h0 == two.heap
       IN  \E p \in WalkEnds(w.pos_index, steps, h0[w.walking_space]) :
           \E xx \in binomial(At(h0[w.ground_truth], p)) :
              LET h1 == [h0 EXCEPT ![w.happiness] = RecordHappiness(h0[w.happiness], p, xx)]
                  h2 == [h1 EXCEPT ![w.hits] = RecordHits(h1[w.hits], p, xx)]
                  d  == Divisor(h1[w.hits], h2[w.hits], p)
                  h3 == [h2 EXCEPT ![w.emp_truth] =
                            Put(h2[w.emp_truth], p, TrueDiv(At(h2[w.happiness], p), d))]
                  h4 == [h3 EXCEPT ![w.walking_space] =
                            [q \in DOMAIN h3[w.walking_space] |->
                                IF q \in BiasRange(size) THEN Bias(h3[w.emp_truth][q])
                                ELSE h3[w.walking_space][q]]]
              IN  two' = [two EXCEPT !.heap = h4,
                                     !.w[k].pos_index = argmax(h4[w.emp_truth]),
                                     !.w[k].i = w.i + 1]
    /\ UNCHANGED <<cfgVars, pos_index, emp_truth, happiness, hits, walking_space,
                   init_state, pos, toss_val, result, x, i, s, pc, err, q_walk, ret,
                   wins, gate>>

NextTwo == \E k \in Walkers : TwoTrial(k)

SpecTwo == InitTwo /\ [][NextTwo]_vars

(* the mutable state of walker k: its lists, read through their addresses *)
WalkerView(t, k) ==
    [pos_index |-> t.w[k].pos_index,
     emp_truth |-> t.heap[t.w[k].emp_truth],
     happiness |-> t.heap[t.w[k].happiness],
     hits |-> t.heap[t.w[k].hits],
     walking_space |-> t.heap[t.w[k].walking_space]]

(* C14: a trial of one walker changes no hits, happiness, emp_truth,       *)
(* walking_space or pos_index of the other, and no trial changes the       *)
(* shared ground truth.                                                    *)
C14_WalkersAreIsolated ==
    [][two.name = "two" =>
         /\ \A k \in Walkers :
               two'.w[k].i = two.w[k].i => WalkerView(two', k) = WalkerView(two, k)
         /\ two'.heap[GtAddr] = two.heap[GtAddr]]_vars

(* both walkers have recorded pulls, at different positions *)
C14_Witness ==
    /\ two.name = "two"
    /\ two.w[1].i >= 1 /\ two.w[2].i >= 1
    /\ WalkerView(two, 1).hits # WalkerView(two, 2).hits
    /\ two.w[1].ground_truth = two.w[2].ground_truth

-----------------------------------------------------------------------------
(* the step on the ring of n positions that the result r names *)
RingStep(p, r, n) ==
    IF r = "BACK" THEN (p - 1) % n
    ELSE IF r = "FORWARD" THEN (p + 1) % n
    ELSE p

(* C15: for size >= 2, every iteration of walkk moves pos_index by the     *)
(* modular ring step of its result: BACK to (pos - 1) mod size, FORWARD to *)
(* (pos + 1) mod size, STAY nowhere.                                       *)
C15_OneWalkIsRingStep ==
    [][(~IsWalk /\ size >= 2 /\ pc = "walk" /\ s' = s + 1) =>
          /\ pos_index \in 0 .. size - 1
          /\ result' \in {"BACK", "STAY", "FORWARD"}
          /\ pos_index' = RingStep(pos_index, result', size)]_vars

(* FORWARD from the last position has wrapped to 0 *)
C15_Witness ==
    /\ Tossed /\ size >= 3 /\ pc = "walk"
    /\ pos = size - 1 /\ result = "FORWARD" /\ pos_index = 0

-----------------------------------------------------------------------------
(* QuantumWalk runs.  walk() is one action: it builds the circuit and      *)
(* returns, or raises the CircuitError of the first instruction qiskit     *)
(* rejects.  pc = "pull" is explore between walk() and slotMachine().      *)
MaxQSize == 17

(* one instruction of q_walk *)
Instr(op, arg, qubits) == [op |-> op, arg |-> arg, qubits |-> qubits]

(* "[i + lo for i in range(cnt)]" *)
Qubits(lo, cnt) == [k \in 1 .. cnt |-> lo + k - 1]

(* walk: the instructions appended by one iteration of the step loop *)
Round(theta, n) ==
    <<Instr("u", <<theta>>, <<0>>), Instr("u", <<theta>>, <<1>>),
      Instr("Inc", incremment_gate(n).ops, Qubits(1, n + 1)),
      Instr("x", <<>>, <<1>>),
      Instr("dec", decrement_two_coins(n).ops, Qubits(0, n + 2)),
      Instr("x", <<>>, <<1>>)>>

RECURSIVE Rounds(_, _, _)
Rounds(st, theta, n) == IF st = 0 THEN <<>> ELSE Round(theta, n) \o Rounds(st - 1, theta, n)

(* walk: "for i in range(self.n): self.q_walk.measure(i + 2, i)" *)
Measures(n) == [k \in 1 .. n |-> Instr("measure", <<k - 1>>, <<k + 1>>)]

(* prepare_state(label, qubits): qiskit prepares one qubit per character of *)
(* the label and rejects a qubit list of another length                     *)
Preparable(label, n) == Len(label) = n

(* the position set from a measurement of the register *)
walk_pos_measured(p, n) == (p + 1) % (2 ^ n)

(* walk: pos_index after the circuit is built; the lines that would run the *)
(* circuit and assign the measured position are comments                    *)
walk_pos(p, n) == p

QuantumWalk_walk ==
    /\ pc = "walk" /\ kind = "QuantumWalk"
    /\ IF ~Preparable(init_state, n_qubits)
       THEN /\ Raise("CircuitError")
            /\ q_walk' = <<>>
            /\ UNCHANGED <<pos_index, s>>
       ELSE IF steps > 0 /\ ~InRange(pos_index, Len0(walking_space))
       THEN /\ Raise("IndexError")
            /\ q_walk' = <<Instr("prepare_state", init_state, Qubits(2, n_qubits))>>
            /\ UNCHANGED <<pos_index, s>>
       ELSE IF steps > 0 /\ ~(Buildable(incremment_gate(n_qubits))
                               /\ Buildable(decrement_two_coins(n_qubits)))
       THEN /\ Raise("CircuitError")
            /\ q_walk' = <<Instr("prepare_state", init_state, Qubits(2, n_qubits))>>
            /\ UNCHANGED <<pos_index, s>>
       ELSE /\ q_walk' = <<Instr("prepare_state", init_state, Qubits(2, n_qubits))>>
                         \o Rounds(steps, At(walking_space, pos_index), n_qubits)
                         \o Measures(n_qubits)
            /\ pos_index' = walk_pos(pos_index, n_qubits)
            /\ s' = steps
            /\ pc' = "pull"
            /\ UNCHANGED err
    /\ UNCHANGED <<cfgVars, emp_truth, happiness, hits, walking_space, init_state,
                   pos, toss_val, result, x, i, gate, ret, wins, two>>

(* the sizes of the runs: the small ones and one with a five-qubit register *)
QSizes == (1 .. MaxSize) \cup {MaxQSize}

(* the ground truths of a run of size sz *)
QGroundTruths(sz) ==
    IF sz <= MaxSize THEN [0 .. sz - 1 -> GTValid]
    ELSE {[p \in 0 .. sz - 1 |-> g] : g \in GTValid}

InitQ ==
    /\ \E sz \in QSizes, jj \in 0 .. MaxJ, st \in 0 .. MaxSteps :
         \E ip \in 0 .. sz - 1, gt \in QGroundTruths(sz), theta \in Thetas :
            Construct("QuantumWalk", sz, ip, theta, st, jj, gt)
    /\ gate = GateIdle
    /\ two = TwoIdle

NextQ ==
    \/ QuantumWalk_walk
    \/ slotMachine
    \/ Record
    \/ Update
    \/ main

SpecQ == InitQ /\ [][NextQ]_vars

-----------------------------------------------------------------------------
(* the integer a bit string denotes, most significant bit first *)
RECURSIVE BinValue(_)
BinValue(str) ==
    IF Len(str) = 0 THEN 0
    ELSE 2 * BinValue(SubSeq(str, 1, Len(str) - 1)) + str[Len(str)]

(* C17: whenever QuantumWalk.walk is about to prepare the register,        *)
(* init_state is the binary encoding of pos_index, most significant bit    *)
(* first, on exactly n = ceil(log2(size)) bits.                            *)
C17_InitStateHasNBits ==
    (kind = "QuantumWalk" /\ pc = "walk" /\ pos_index \in 0 .. size - 1) =>
        /\ BinValue(init_state) = pos_index
        /\ Len(init_state) = n_qubits

-----------------------------------------------------------------------------
(* the index a step may write: the one pulled, while explore records it *)
Pulled ==
    IF pc = "record" /\ InRange(pos_index, size) THEN {PyIdx(pos_index, size)} ELSE {}

(* C18: a trial changes hits, happiness and emp_truth only at the index it *)
(* pulled; the other entries, and size, j, steps and ground_truth, are     *)
(* unchanged by every step of every trial.                                 *)
C18_TrialFrame ==
    [][/\ size' = size /\ j' = j /\ steps' = steps /\ ground_truth' = ground_truth
       /\ DOMAIN hits' = DOMAIN hits
       /\ DOMAIN happiness' = DOMAIN happiness
       /\ DOMAIN emp_truth' = DOMAIN emp_truth
       /\ \A p \in (0 .. size - 1) \ Pulled :
             /\ hits'[p] = hits[p]
             /\ happiness'[p] = happiness[p]
             /\ emp_truth'[p] = emp_truth[p]]_vars

(* a third pull has been recorded, the earlier two at two other positions *)
C18_Witness ==
    /\ pc = "update" /\ size >= 3 /\ pos_index \in 0 .. size - 1
    /\ hits[pos_index] = 1
    /\ \E p, q \in (0 .. size - 1) \ {pos_index} :
          p # q /\ hits[p] = 1 /\ happiness[p] = 1 /\ hits[q] = 1 /\ happiness[q] = 0

-----------------------------------------------------------------------------
(* C19: ClassicalWalk.walk returns after exactly steps moves; each move    *)
(* takes pos_index to (pos + 1) mod size or (pos - 1) mod size, never to   *)
(* itself when size >= 2; with steps = 0 it returns pos_index unchanged.   *)
C19_ClassicalWalkMoves ==
    [][(kind = "ClassicalWalk" /\ pc = "walk") =>
          IF pc' = "walk"
          THEN /\ s < steps /\ s' = s + 1
               /\ pos_index' \in {(pos_index + 1) % size, (pos_index - 1) % size}
               /\ size >= 2 => pos_index' # pos_index
          ELSE /\ s = steps
               /\ pos_index' = pos_index]_vars

(* a walk of two moves forward from the re-anchor, across the wrap *)
C19_Witness ==
    /\ kind = "ClassicalWalk" /\ pc = "record" /\ size = 3 /\ i >= 1
    /\ steps = 2 /\ s = steps
    /\ argmax(emp_truth) >= 1
    /\ pos_index = (argmax(emp_truth) + 2) % size

====
